---- MODULE Spec2Model ----
(***************************************************************************)
(* Model of parallel_driver_generate_traffic.py: a driver that issues      *)
(* random puts against a key-value store (simulate_traffic), checks the    *)
(* put latencies (validate_time), reads every accepted pair back           *)
(* (validate_puts) and checks the get latencies.                           *)
(*                                                                         *)
(* Durations are whole milliseconds (a sample s stands for s/1000 seconds, *)
(* the unit time.time() differences are multiplied into by "* 1000").      *)
(* A percentile is kept in fixed point: the integer r stands for           *)
(* r / PctScale milliseconds.                                              *)
(***************************************************************************)
EXTENDS Integers, Sequences, FiniteSets

VARIABLES
    pc,                      \* position of the driver in the script
    store,                   \* the key-value store: key -> value or NoValue
    num_requests,            \* simulate_traffic: helper.generate_requests()
    kvs,                     \* accepted (key, value) pairs
    times,                   \* latency samples of the running / last phase
    threshold,               \* validate_time: its threshold argument
    values_stay_consistent,  \* validate_puts: first component of the result
    mismatch,                \* validate_puts: second component of the result
    performant,              \* validate_time: first component of the result
    response,                \* validate_time: second component (pct95)
    always_log,              \* sink: the always(...) calls, in order
    sometimes_seen,          \* sink: sometimes(...) names observed true
    puts,                    \* history: every put call (key, value, success)
    gets,                    \* history: every get call of the running validate_puts
    run,                     \* harness: which call of validate_puts is running
    first,                   \* harness: result and history of the first call
    peer_puts                \* number of puts a concurrent instance has made

vars == <<pc, store, num_requests, kvs, times, threshold,
          values_stay_consistent, mismatch, performant, response,
          always_log, sometimes_seen, puts, gets, run, first, peer_puts>>

(***************************************************************************)
(* Bounds and input domains                                                *)
(***************************************************************************)
MaxRequests == 3
MaxKvs == 2
MaxPeerPuts == 2
MaxParRequests == 2
MaxShort == 3
MaxSamples == 100
Threshold == 10
\* Mutant: the percentile argument 95 instead of 0.95.
PctIntended == 95 * 100

PctHundredths == 95
\* Fixed-point denominator: percent (100) times hundredths of a percent (100).
PctScale == 100 * 100

Keys == {"k1", "k2"}
Values == {"v1", "v2"}
Latencies == {1, 20}
\* Python's None as a stored or returned value.
NoValue == "None"
\* Python's None as the mismatch: the empty tuple.
NoMismatch == <<>>
\* nan as a percentile: no sample is negative, so -1 is no percentile.
NaN == -1

PutLatencyName == "95th percentile response times for puts <10 ms"
ConsistencyName == "Database key values stay consistent"
GetLatencyName == "95th percentile response times for gets <10 ms"
PutSometimesName == "Client can make successful put requests"
GetSometimesName == "Client can make successful get requests"

Range(s) == {s[i] : i \in 1..Len(s)}

Min(a, b) == IF a <= b THEN a ELSE b

(***************************************************************************)
(* The store behind helper.put_request / helper.get_request: a successful  *)
(* put sets the key, a failed put leaves the store alone, a successful get *)
(* returns the value of the latest successful put and a get never writes.  *)
(***************************************************************************)
PutRequest(st, key, value, success) ==
    IF success THEN [st EXCEPT ![key] = value] ELSE st

GetRequest(st, key, success) ==
    IF success THEN st[key] ELSE NoValue

\* Mutant: a get that consumes the key it reads.
StoreAfterGetDeletes(st, key) == [st EXCEPT ![key] = NoValue]

StoreAfterGet(st, key) == st

(***************************************************************************)
(* validate_time                                                           *)
(***************************************************************************)
\* The samples in ascending order.
Sorted(s) ==
    [i \in 1..Len(s) |->
        CHOOSE v \in Range(s) :
            /\ Cardinality({j \in 1..Len(s) : s[j] < v}) < i
            /\ i <= Cardinality({j \in 1..Len(s) : s[j] <= v})]

\* np.percentile(a, q) with q = qh / 100, linear interpolation, for a
\* non-empty a: the value at virtual index (q / 100) * (n - 1) of the sorted
\* samples, in units of 1 / PctScale.
Percentile(a, qh) ==
    LET n == Len(a)
        srt == Sorted(a)
        virt == qh * (n - 1)
        lo == virt \div PctScale
        gamma == virt % PctScale
        hi == Min(lo + 1, n - 1)
    IN  srt[lo + 1] * PctScale + gamma * (srt[hi + 1] - srt[lo + 1])

\* The outcomes of validate_time(ts, thr). On an empty sequence np.percentile
\* either raises (IndexError) or yields nan, depending on the numpy build;
\* nan >= thr is False, so the nan outcome returns (True, nan).
ValidateTime(ts, thr) ==
    IF Len(ts) = 0
    THEN {[raised |-> TRUE, performant |-> FALSE, response |-> NaN],
          [raised |-> FALSE, performant |-> TRUE, response |-> NaN]}
    ELSE LET pct95 == Percentile(ts, PctHundredths)
         IN  {[raised |-> FALSE,
               performant |-> ~(pct95 >= thr * PctScale),
               response |-> pct95]}

(***************************************************************************)
(* simulate_traffic                                                        *)
(***************************************************************************)
\* Mutant: the pair is appended whatever the put reported.
AcceptedAlways(acc, key, value, success) == Append(acc, <<key, value>>)

\* kvs after a put: appended to only when the put reported success.
Accepted(acc, key, value, success) ==
    IF success THEN Append(acc, <<key, value>>) ELSE acc

\* Mutant: one iteration too many.
MorePutsOffByOne(issued, n) == issued <= n

\* for _ in range(num_requests): another iteration follows.
MorePuts(issued, n) == issued < n

SimulateStart(maxreq) ==
    /\ pc = "simulate_traffic"
    /\ \E n \in 1..maxreq : num_requests' = n
    /\ kvs' = <<>>
    /\ times' = <<>>
    /\ pc' = "put_loop"
    /\ UNCHANGED <<store, threshold, values_stay_consistent, mismatch,
                   performant, response, always_log, sometimes_seen,
                   puts, gets, run, first, peer_puts>>

PutStep ==
    /\ pc = "put_loop"
    /\ MorePuts(Len(times), num_requests)
    /\ \E key \in Keys, value \in Values, success \in BOOLEAN,
          elapsed_time \in Latencies :
        /\ store' = PutRequest(store, key, value, success)
        /\ times' = Append(times, elapsed_time)
        /\ sometimes_seen' = IF success
                             THEN sometimes_seen \cup {PutSometimesName}
                             ELSE sometimes_seen
        /\ kvs' = Accepted(kvs, key, value, success)
        /\ puts' = Append(puts, [key |-> key, value |-> value,
                                 success |-> success])
    /\ UNCHANGED <<pc, num_requests, threshold, values_stay_consistent,
                   mismatch, performant, response, always_log, gets, run,
                   first, peer_puts>>

SimulateReturn ==
    /\ pc = "put_loop"
    /\ ~MorePuts(Len(times), num_requests)
    /\ pc' = "check_put_latency"
    /\ UNCHANGED <<store, num_requests, kvs, times, threshold,
                   values_stay_consistent, mismatch, performant, response,
                   always_log, sometimes_seen, puts, gets, run, first,
                   peer_puts>>

(***************************************************************************)
(* validate_puts                                                           *)
(***************************************************************************)
\* Mutant: the comparison is never made.
NeverMismatched(success, value, database_value) == FALSE

\* Mutant: the value is compared even when the get failed.
MismatchedIgnoringSuccess(success, value, database_value) ==
    value # database_value

\* The branch of lines 78-82 that returns the mismatch.
Mismatched(success, value, database_value) ==
    success /\ value # database_value

ValidateStart ==
    /\ pc = "validate_puts"
    /\ times' = <<>>
    /\ gets' = <<>>
    /\ pc' = "get_loop"
    /\ UNCHANGED <<store, num_requests, kvs, threshold,
                   values_stay_consistent, mismatch, performant, response,
                   always_log, sometimes_seen, puts, run, first, peer_puts>>

GetStep ==
    /\ pc = "get_loop"
    /\ Len(times) < Len(kvs)
    /\ LET kv == kvs[Len(times) + 1]
           key == kv[1]
           value == kv[2]
       IN  \E success \in BOOLEAN, elapsed_time \in Latencies :
             LET database_value == GetRequest(store, key, success)
             IN  /\ store' = StoreAfterGet(store, key)
                 /\ times' = Append(times, elapsed_time)
                 /\ gets' = Append(gets, [key |-> key, success |-> success,
                                          value |-> database_value])
                 /\ sometimes_seen' = IF success
                                      THEN sometimes_seen \cup {GetSometimesName}
                                      ELSE sometimes_seen
                 /\ IF Mismatched(success, value, database_value)
                    THEN /\ values_stay_consistent' = FALSE
                         /\ mismatch' = <<value, database_value>>
                         /\ pc' = "validated"
                    ELSE UNCHANGED <<values_stay_consistent, mismatch, pc>>
    /\ UNCHANGED <<num_requests, kvs, threshold, performant, response,
                   always_log, puts, run, first, peer_puts>>

ValidateReturn ==
    /\ pc = "get_loop"
    /\ ~(Len(times) < Len(kvs))
    /\ values_stay_consistent' = TRUE
    /\ mismatch' = NoMismatch
    /\ pc' = "validated"
    /\ UNCHANGED <<store, num_requests, kvs, times, threshold, performant,
                   response, always_log, sometimes_seen, puts, gets, run,
                   first, peer_puts>>

(***************************************************************************)
(* __main__                                                                *)
(***************************************************************************)
\* validate_time(times, 10) and the always(...) that reports it; an
\* exception raised by validate_time is not handled and ends the process.
CheckLatency(at, name, next) ==
    /\ pc = at
    /\ threshold' = Threshold
    /\ \E r \in ValidateTime(times, Threshold) :
         IF r.raised
         THEN /\ pc' = "abort"
              /\ UNCHANGED <<performant, response, always_log>>
         ELSE /\ performant' = r.performant
              /\ response' = r.response
              /\ always_log' = Append(always_log,
                                      [name |-> name, condition |-> r.performant])
              /\ pc' = next
    /\ UNCHANGED <<store, num_requests, kvs, times, values_stay_consistent,
                   mismatch, sometimes_seen, puts, gets, run, first, peer_puts>>

CheckPutLatency ==
    CheckLatency("check_put_latency", PutLatencyName, "validate_puts")

ReportConsistency ==
    /\ pc = "validated"
    /\ always_log' = Append(always_log, [name |-> ConsistencyName,
                                         condition |-> values_stay_consistent])
    /\ pc' = "check_get_latency"
    /\ UNCHANGED <<store, num_requests, kvs, times, threshold,
                   values_stay_consistent, mismatch, performant, response,
                   sometimes_seen, puts, gets, run, first, peer_puts>>

CheckGetLatency ==
    CheckLatency("check_get_latency", GetLatencyName, "end")

(***************************************************************************)
(* One run of the driver against a store that is initially empty           *)
(***************************************************************************)
InitCommon ==
    /\ num_requests = 0
    /\ values_stay_consistent = FALSE
    /\ mismatch = NoMismatch
    /\ performant = FALSE
    /\ response = NaN
    /\ always_log = <<>>
    /\ sometimes_seen = {}
    /\ puts = <<>>
    /\ gets = <<>>
    /\ first = [consistent |-> FALSE, mismatch |-> NoMismatch, gets |-> <<>>]
    /\ peer_puts = 0

Init ==
    /\ pc = "simulate_traffic"
    /\ store = [k \in Keys |-> NoValue]
    /\ kvs = <<>>
    /\ times = <<>>
    /\ run = 0
    /\ threshold = Threshold
    /\ InitCommon

Next ==
    \/ SimulateStart(MaxRequests)
    \/ PutStep
    \/ SimulateReturn
    \/ CheckPutLatency
    \/ ValidateStart
    \/ GetStep
    \/ ValidateReturn
    \/ ReportConsistency
    \/ CheckGetLatency

Spec == Init /\ [][Next]_vars

\* The script runs to completion on its own: single-threaded, every call
\* blocking, nothing to wait for but the calls themselves.
FairSpec == Spec /\ WF_vars(Next)

(***************************************************************************)
(* validate_puts called twice by a test harness, on any accepted set and   *)
(* any store contents                                                      *)
(***************************************************************************)
SeqsUpTo(S, n) == UNION {[1..m -> S] : m \in 0..n}

InitValidate ==
    /\ pc = "validate_puts"
    /\ store \in [Keys -> Values \cup {NoValue}]
    /\ kvs \in SeqsUpTo(Keys \X Values, MaxKvs)
    /\ times = <<>>
    /\ run = 1
    /\ threshold = Threshold
    /\ InitCommon

\* The harness keeps the first call's result and calls validate_puts again.
Rerun ==
    /\ pc = "validated"
    /\ run = 1
    /\ first' = [consistent |-> values_stay_consistent, mismatch |-> mismatch,
                 gets |-> gets]
    /\ run' = 2
    /\ pc' = "validate_puts"
    /\ UNCHANGED <<store, num_requests, kvs, times, threshold,
                   values_stay_consistent, mismatch, performant, response,
                   always_log, sometimes_seen, puts, gets, peer_puts>>

NextValidate ==
    \/ ValidateStart
    \/ GetStep
    \/ ValidateReturn
    \/ Rerun

SpecValidate == InitValidate /\ [][NextValidate]_vars

(***************************************************************************)
(* The driver with a second instance of it running concurrently against    *)
(* the same store: the other instance's gets change nothing, its puts are  *)
(* the puts of simulate_traffic, landing between this instance's steps.    *)
(***************************************************************************)
PeerPut ==
    /\ peer_puts < MaxPeerPuts
    /\ pc \notin {"end", "abort"}
    /\ \E key \in Keys, value \in Values, success \in BOOLEAN :
         store' = PutRequest(store, key, value, success)
    /\ peer_puts' = peer_puts + 1
    /\ UNCHANGED <<pc, num_requests, kvs, times, threshold,
                   values_stay_consistent, mismatch, performant, response,
                   always_log, sometimes_seen, puts, gets, run, first>>

NextPar ==
    \/ SimulateStart(MaxParRequests)
    \/ PutStep
    \/ SimulateReturn
    \/ CheckPutLatency
    \/ ValidateStart
    \/ GetStep
    \/ ValidateReturn
    \/ ReportConsistency
    \/ CheckGetLatency
    \/ PeerPut

SpecPar == Init /\ [][NextPar]_vars

(***************************************************************************)
(* validate_time on its own, on sample sequences of 1 to MaxSamples        *)
(* samples                                                                 *)
(***************************************************************************)
PctLatencies == {2, 9, 11, 500}
PctThresholds == {Threshold, 1000}

\* Short sequences, the same padded to MaxSamples samples with one value,
\* and the samples 1ms, 2ms, ..., MaxSamples ms.
PctInputs ==
    LET short == SeqsUpTo(PctLatencies, MaxShort) \ {<<>>}
    IN  short
        \cup {p \o [i \in 1..(MaxSamples - Len(p)) |-> f] :
                p \in short, f \in PctLatencies}
        \cup {[i \in 1..MaxSamples |-> i]}

InitPct ==
    /\ pc = "validate_time"
    /\ store = [k \in Keys |-> NoValue]
    /\ kvs = <<>>
    /\ times \in PctInputs
    /\ run = 0
    /\ InitCommon
    /\ threshold \in PctThresholds

ValidateTimeCall ==
    /\ pc = "validate_time"
    /\ \E r \in ValidateTime(times, threshold) :
         /\ performant' = r.performant
         /\ response' = r.response
         /\ pc' = IF r.raised THEN "abort" ELSE "validate_time_done"
    /\ UNCHANGED <<store, num_requests, kvs, times, threshold,
                   values_stay_consistent, mismatch, always_log,
                   sometimes_seen, puts, gets, run, first, peer_puts>>

NextPct == ValidateTimeCall

SpecPct == InitPct /\ [][NextPct]_vars

(***************************************************************************)
(* Properties                                                              *)
(***************************************************************************)
IsSuccess(p) == p.success

PastValidate == pc \in {"validated", "check_get_latency", "end", "abort"}

\* The gets issued so far that succeeded with a value other than the
\* accepted one, by position in kvs.
BadGets == {i \in 1..Len(gets) : gets[i].success /\ gets[i].value # kvs[i][2]}

FirstOf(S) == CHOOSE i \in S : \A j \in S : i <= j

\* C1: against a store into which no failure is injected, validate_puts
\* returns (True, None, _) for every accepted set simulate_traffic returns.
C1_NoMismatchOnCorrectStore ==
    PastValidate => (values_stay_consistent = TRUE /\ mismatch = NoMismatch)

\* C2: at every point kvs is exactly the (key, value) of the puts that
\* reported success, in the order they were issued; a failed put adds
\* nothing; len(kvs) <= puts issued <= num_requests.
C2_AcceptedAreSuccessfulPuts ==
    LET ok == SelectSeq(puts, IsSuccess)
    IN  /\ Len(kvs) = Len(ok)
        /\ \A i \in 1..Len(kvs) : kvs[i] = <<ok[i].key, ok[i].value>>
        /\ Len(kvs) <= Len(puts)
        /\ Len(puts) <= num_requests

C2_Witness ==
    /\ pc = "check_put_latency"
    /\ Len(puts) = 3
    /\ Len(kvs) = 2
    /\ ~puts[2].success
    /\ kvs[1] # kvs[2]

\* C3: with the request count n, simulate_traffic issues exactly n puts,
\* one per iteration whatever each reported, and returns n latency samples.
C3_ExactlyNPuts ==
    /\ pc = "put_loop" => (Len(puts) = Len(times) /\ Len(puts) <= num_requests)
    /\ pc = "check_put_latency" =>
          (Len(puts) = num_requests /\ Len(times) = num_requests)
    /\ pc \notin {"simulate_traffic", "put_loop", "check_put_latency"} =>
          Len(puts) = num_requests

C3_Witness ==
    /\ pc = "check_put_latency"
    /\ num_requests = 3
    /\ Len(times) = 3
    /\ puts[1].success
    /\ ~puts[2].success
    /\ ~puts[3].success

\* C4: gets are issued in accepted-set order and validate_puts stops at
\* the first pair whose get succeeds with another value: it returns
\* (False, (v, w), times) with len(times) = i and issues no further get;
\* with no such pair a get is attempted for every accepted pair.
C4_ShortCircuitOnFirstMismatch ==
    /\ Len(gets) <= Len(kvs)
    /\ \A j \in 1..Len(gets) : gets[j].key = kvs[j][1]
    /\ pc = "get_loop" => (BadGets = {} /\ Len(times) = Len(gets))
    /\ pc = "validated" =>
          IF BadGets # {}
          THEN LET i == FirstOf(BadGets)
               IN  /\ values_stay_consistent = FALSE
                   /\ mismatch = <<kvs[i][2], gets[i].value>>
                   /\ Len(times) = i
                   /\ Len(gets) = i
          ELSE /\ values_stay_consistent = TRUE
               /\ Len(times) = Len(kvs)
               /\ Len(gets) = Len(kvs)

C4_Witness ==
    /\ pc = "validated"
    /\ Len(kvs) = 2
    /\ Len(gets) = 1
    /\ values_stay_consistent = FALSE
    /\ mismatch = <<"v1", "v2">>

\* C5: a failed get is not fatal: the result is (True, None, _) exactly
\* when every get failed or returned the accepted value; a failed get never
\* makes the result False, never fills the mismatch, never ends the loop.
C5_FailedGetNotFatal ==
    pc = "validated" =>
      /\ (values_stay_consistent = TRUE) <=>
            (/\ Len(gets) = Len(kvs)
             /\ \A i \in 1..Len(gets) :
                  ~gets[i].success \/ gets[i].value = kvs[i][2])
      /\ (values_stay_consistent = TRUE) <=> (mismatch = NoMismatch)
      /\ values_stay_consistent = FALSE =>
            (Len(gets) > 0 /\ gets[Len(gets)].success)
      /\ kvs = <<>> => values_stay_consistent = TRUE
      /\ (\A i \in 1..Len(gets) : ~gets[i].success) =>
            (values_stay_consistent = TRUE /\ Len(gets) = Len(kvs))

C5_Witness ==
    /\ pc = "validated"
    /\ Len(kvs) = 2
    /\ Len(gets) = 2
    /\ ~gets[1].success
    /\ store[kvs[1][1]] # kvs[1][2]
    /\ gets[2].success
    /\ values_stay_consistent = TRUE
    /\ mismatch = NoMismatch

\* The phase of the run a position belongs to; an abort happens in phase 4.
Phase ==
    CASE pc \in {"simulate_traffic", "put_loop"} -> 1
      [] pc = "check_put_latency" -> 2
      [] pc \in {"validate_puts", "get_loop", "validated"} -> 3
      [] pc \in {"check_get_latency", "abort"} -> 4
      [] OTHER -> 5

\* C6: every run goes through GENERATE, CHECK_PUT_LATENCY, VALIDATE,
\* CHECK_GET_LATENCY, END in that order and stops only at END, having
\* reported the put-latency, key-consistency and get-latency properties
\* once each, in that order.
C6_LinearPhasesToEnd ==
    /\ [][Phase' = Phase \/ Phase' = Phase + 1]_vars
    /\ <>(/\ pc = "end"
          /\ Len(always_log) = 3
          /\ always_log[1].name = PutLatencyName
          /\ always_log[2].name = ConsistencyName
          /\ always_log[3].name = GetLatencyName)

SameGetOutcomes ==
    \A j \in 1..Min(Len(first.gets), Len(gets)) :
        first.gets[j].success = gets[j].success

C8_SamplesNonEmptyAtBothCalls ==
    pc \in {"check_put_latency", "check_get_latency"} => Len(times) > 0

Smallest(s) == CHOOSE m \in Range(s) : \A x \in Range(s) : m <= x

SecondSmallest(s) ==
    LET m == Smallest(s)
        rest == Range(s) \ {m}
    IN  IF Cardinality({i \in 1..Len(s) : s[i] = m}) > 1 \/ rest = {}
        THEN m
        ELSE CHOOSE x \in rest : \A y \in rest : x <= y

OwnKeysDistinct ==
    \A i, j \in 1..Len(kvs) : i # j => kvs[i][1] # kvs[j][1]

\* C10: with another instance running against the same, correct store, no
\* instance sees a mismatch. Stated for an instance whose own accepted keys
\* are pairwise distinct, so that only the other instance's puts are in play.
C10_NoMismatchWithPeers ==
    (PastValidate /\ OwnKeysDistinct) =>
        (values_stay_consistent = TRUE /\ mismatch = NoMismatch)

====
